---- MODULE Spec2Model ----
(***************************************************************************)
(* Device manager of the NIFCLOUD additional storage CSI driver            *)
(* (pkg/cloud/devicemanager/manager.go).                                   *)
(*                                                                         *)
(* The manager keeps one table, inFlight, of the device names it has       *)
(* handed out and that are not released yet, guarded by one mutex.         *)
(* Callers (goroutines) call NewDevice / GetDevice with an instance        *)
(* description fetched from the cloud API, keep the returned Device, may   *)
(* Taint it, and call Release on it.                                       *)
(*                                                                         *)
(* Encoding.  Device names are numbers: 1..NumNames are the names the      *)
(* name allocator can hand out, in its order, and the provider reports     *)
(* names of that range; NoPath (0) is the empty string.  Volume ids are    *)
(* 1..NumVols and NoVol (0) is the empty string, which is also what a Go   *)
(* map lookup of a missing key yields.  Callers never pass an empty        *)
(* volume id and the provider never reports an empty name or volume id.    *)
(* An instance is its id and its reported block device mapping (a          *)
(* snapshot); NilInst (0) is the nil pointer.                              *)
(***************************************************************************)
EXTENDS Integers, FiniteSets, Sequences, TLC

\* ---------------------------------------------------------------- bounds
NumProcs == 2
NumNames == 2
NumVols == 2
NumInsts == 1

Procs == 1..NumProcs
Names == 1..NumNames
DevNames == Names
Vols == 1..NumVols
InstIDs == 1..NumInsts

NoPath == 0
NoVol == 0
NilInst == 0
NoOwner == 0

\* A reported block device mapping: device name -> volume id (NoVol: none).
Snapshots == [DevNames -> Vols \cup {NoVol}]
EmptySnap == [n \in DevNames |-> NoVol]

VARIABLES
    inFlight,   \* deviceManager.inFlight: instance id -> name -> volume id
    mux,        \* deviceManager.mux: NoOwner, or the caller holding it
    pc,         \* where each caller is
    args,       \* arguments and locals of the call each caller is in
    dev,        \* the *Device each caller holds (NoDevice: none)
    ret,        \* outcome of the last call each caller completed
    crashed     \* the process died of an unrecovered panic

vars == <<inFlight, mux, pc, args, dev, ret, crashed>>

\* ------------------------------------------------------ inFlightAttaching
EmptyTable == [i \in InstIDs |-> [n \in DevNames |-> NoVol]]

\* An Add that drops the other entries of the instance.
AddReplacing(tbl, nodeID, volumeID, name) ==
    [tbl EXCEPT ![nodeID] =
        [n \in DevNames |-> IF n = name THEN volumeID ELSE NoVol]]

Add(tbl, nodeID, volumeID, name) == [tbl EXCEPT ![nodeID][name] = volumeID]

\* A Del that deletes every entry of the instance.
DelInstance(tbl, nodeID, name) ==
    IF name \in DevNames
    THEN [tbl EXCEPT ![nodeID] = [n \in DevNames |-> NoVol]]
    ELSE tbl

\* A Del that deletes nothing.
DelNothing(tbl, nodeID, name) == tbl

Del(tbl, nodeID, name) ==
    IF name \in DevNames THEN [tbl EXCEPT ![nodeID][name] = NoVol] ELSE tbl

GetNames(tbl, nodeID) == tbl[nodeID]

GetVolume(tbl, nodeID, name) ==
    IF name \in DevNames THEN tbl[nodeID][name] ELSE NoVol

\* ----------------------------------------------------------------- mutex
\* A lock that excludes nobody.
LockableUnguarded(m) == TRUE

Lockable(m) == m = NoOwner

\* An unlock that is never run.
UnlockLeaks(p) == p

Unlock(p) == NoOwner

\* --------------------------------------------------------------- helpers
\* The in-flight names are left out.
getDeviceNamesInUseReportedOnly(tbl, nodeID, snap) == snap

\* The reported block devices are left out.
getDeviceNamesInUseInFlightOnly(tbl, nodeID, snap) == GetNames(tbl, nodeID)

\* The reported volume of a name is kept when the name is in flight too.
getDeviceNamesInUseReportedWins(tbl, nodeID, snap) ==
    [n \in DevNames |->
        IF snap[n] # NoVol THEN snap[n] ELSE GetNames(tbl, nodeID)[n]]

\* The mapping is filled from the reported block devices first and the
\* in-flight names of the instance are written over it.
getDeviceNamesInUse(tbl, nodeID, snap) ==
    [n \in DevNames |->
        IF GetNames(tbl, nodeID)[n] # NoVol THEN GetNames(tbl, nodeID)[n]
        ELSE snap[n]]

\* The volume id of the entry is not compared.
getPathAnyVolume(inUse, volumeID) ==
    LET found == {n \in DevNames : inUse[n] # NoVol}
    IN  IF found = {} THEN {NoPath} ELSE found

\* No name is ever found for the volume.
getPathNeverFound(inUse, volumeID) == {NoPath}

\* getPath ranges over a Go map, whose iteration order is not specified:
\* any name mapped to the volume can be the one returned.
getPath(inUse, volumeID) ==
    LET found == {n \in DevNames : inUse[n] = volumeID}
    IN  IF found = {} THEN {NoPath} ELSE found

\* nameAllocator.GetNext: the first candidate name absent from the in-use
\* mapping; NoPath stands for the "no names available" error.
GetNext(inUse) ==
    LET free == {n \in Names : inUse[n] = NoVol}
    IN  IF free = {} THEN NoPath
        ELSE CHOOSE n \in free : \A m \in free : n <= m

\* getInstanceID: the id of the instance, or an error for a nil instance.
getInstanceID(inst) == [id |-> inst, err |-> inst = NilInst]

newBlockDevice(inst, volumeID, path, isAlreadyAssigned) ==
    [inst |-> inst, path |-> path, vol |-> volumeID,
     assigned |-> isAlreadyAssigned, tainted |-> FALSE]

NoDevice == newBlockDevice(NilInst, NoVol, NoPath, FALSE)

Held(p) == dev[p].inst # NilInst

NoArgs == [inst |-> NilInst, vol |-> NoVol, snap |-> EmptySnap,
           inUse |-> EmptySnap, force |-> FALSE]

\* The taint is ignored.
ReleaseProceedsAlways(isTainted, force) == TRUE

\* Device.Release runs the release function unless the device is tainted
\* and the release is not forced.
ReleaseProceeds(isTainted, force) == (~isTainted) \/ force

\* ------------------------------------------------------------------ Init
Init ==
    /\ inFlight = EmptyTable
    /\ mux = NoOwner
    /\ pc = [p \in Procs |-> "idle"]
    /\ args = [p \in Procs |-> NoArgs]
    /\ dev = [p \in Procs |-> NoDevice]
    /\ ret = [p \in Procs |-> "none"]
    /\ crashed = FALSE

\* ------------------------------------------------------------- NewDevice
\* A caller starts NewDevice(instance, volumeID); the handle of its
\* previous request is dropped.
NewDeviceCall(p, inst, volumeID) ==
    /\ ~crashed
    /\ pc[p] = "idle"
    /\ pc' = [pc EXCEPT ![p] = "nd_lock"]
    /\ args' = [args EXCEPT ![p] = [NoArgs EXCEPT !.inst = inst, !.vol = volumeID]]
    /\ dev' = [dev EXCEPT ![p] = NoDevice]
    /\ ret' = [ret EXCEPT ![p] = "none"]
    /\ UNCHANGED <<inFlight, mux, crashed>>

\* d.mux.Lock(), the nil check and getDeviceNamesInUse.  snap is the block
\* device mapping of the instance the caller passed: an input of the call,
\* drawn here, where it is first read.
NewDeviceLock(p, snap) ==
    /\ ~crashed
    /\ pc[p] = "nd_lock"
    /\ Lockable(mux)
    /\ IF args[p].inst = NilInst
       THEN /\ mux' = Unlock(p)
            /\ pc' = [pc EXCEPT ![p] = "idle"]
            /\ args' = [args EXCEPT ![p] = NoArgs]
            /\ ret' = [ret EXCEPT ![p] = "new_nil"]
       ELSE /\ mux' = p
            /\ pc' = [pc EXCEPT ![p] = "nd_decide"]
            /\ args' = [args EXCEPT ![p].snap = snap,
                                    ![p].inUse = getDeviceNamesInUse(inFlight, args[p].inst, snap)]
            /\ ret' = ret
    /\ UNCHANGED <<inFlight, dev, crashed>>

\* getPath, GetNext, inFlight.Add, the return and the deferred Unlock.
NewDeviceDecide(p) ==
    /\ ~crashed
    /\ pc[p] = "nd_decide"
    /\ \E path \in getPath(args[p].inUse, args[p].vol) :
         LET name == GetNext(args[p].inUse)
             nodeID == getInstanceID(args[p].inst)
         IN  IF path # NoPath
             THEN /\ dev' = [dev EXCEPT ![p] = newBlockDevice(args[p].inst, args[p].vol, path, TRUE)]
                  /\ ret' = [ret EXCEPT ![p] = "new_ok"]
                  /\ inFlight' = inFlight
             ELSE IF nodeID.err
             THEN /\ dev' = dev
                  /\ ret' = [ret EXCEPT ![p] = "new_nil"]
                  /\ inFlight' = inFlight
             ELSE IF name = NoPath
             THEN /\ dev' = dev
                  /\ ret' = [ret EXCEPT ![p] = "new_exhausted"]
                  /\ inFlight' = inFlight
             ELSE /\ dev' = [dev EXCEPT ![p] = newBlockDevice(args[p].inst, args[p].vol, name, FALSE)]
                  /\ ret' = [ret EXCEPT ![p] = "new_ok"]
                  /\ inFlight' = Add(inFlight, nodeID.id, args[p].vol, name)
    /\ mux' = Unlock(p)
    /\ pc' = [pc EXCEPT ![p] = "idle"]
    /\ args' = [args EXCEPT ![p] = NoArgs]
    /\ UNCHANGED crashed

\* ------------------------------------------------------------- GetDevice
GetDeviceCall(p, inst, volumeID) ==
    /\ ~crashed
    /\ pc[p] = "idle"
    /\ pc' = [pc EXCEPT ![p] = "gd_lock"]
    /\ args' = [args EXCEPT ![p] = [NoArgs EXCEPT !.inst = inst, !.vol = volumeID]]
    /\ dev' = [dev EXCEPT ![p] = NoDevice]
    /\ ret' = [ret EXCEPT ![p] = "none"]
    /\ UNCHANGED <<inFlight, mux, crashed>>

\* A GetDevice that records the device it found as in flight.
GetDeviceTableReserving(tbl, nodeID, volumeID, path) ==
    IF path # NoPath THEN Add(tbl, nodeID, volumeID, path) ELSE tbl

\* What GetDevice does to the table, and the handle it returns for a path.
GetDeviceTable(tbl, nodeID, volumeID, path) == tbl

GetDeviceHandle(inst, volumeID, path) ==
    newBlockDevice(inst, volumeID, path, path # NoPath)

\* d.mux.Lock(), the body of GetDevice and the deferred Unlock, which no
\* other caller can observe apart.  snap is the block device mapping of the
\* instance the caller passed.
GetDeviceRun(p, snap) ==
    /\ ~crashed
    /\ pc[p] = "gd_lock"
    /\ args[p].inst # NilInst
    /\ Lockable(mux)
    /\ \E path \in getPath(getDeviceNamesInUse(inFlight, args[p].inst, snap), args[p].vol) :
         /\ dev' = [dev EXCEPT ![p] = GetDeviceHandle(args[p].inst, args[p].vol, path)]
         /\ inFlight' = GetDeviceTable(inFlight, args[p].inst, args[p].vol, path)
    /\ ret' = [ret EXCEPT ![p] = "get_ok"]
    /\ mux' = Unlock(p)
    /\ pc' = [pc EXCEPT ![p] = "idle"]
    /\ args' = [args EXCEPT ![p] = NoArgs]
    /\ UNCHANGED crashed

\* GetDevice with a nil instance: getDeviceNamesInUse dereferences it under
\* the lock, the call panics and the deferred Unlock runs.  The panic ends
\* the process unless it is recovered further up the caller's stack.
GetDevicePanic(p, recovered) ==
    /\ ~crashed
    /\ pc[p] = "gd_lock"
    /\ args[p].inst = NilInst
    /\ Lockable(mux)
    /\ crashed' = ~recovered
    /\ ret' = [ret EXCEPT ![p] = "get_panic"]
    /\ mux' = Unlock(p)
    /\ pc' = [pc EXCEPT ![p] = "idle"]
    /\ args' = [args EXCEPT ![p] = NoArgs]
    /\ UNCHANGED <<inFlight, dev>>

\* ------------------------------------------------------- Taint / Release
Taint(p) ==
    /\ ~crashed
    /\ pc[p] = "idle"
    /\ Held(p)
    /\ ~dev[p].tainted
    /\ dev' = [dev EXCEPT ![p].tainted = TRUE]
    /\ UNCHANGED <<inFlight, mux, pc, args, ret, crashed>>

\* Device.Release(force): skipped for a tainted device unless forced,
\* otherwise the release function is entered, which resolves the instance
\* id and goes for the lock.
Release(p, force) ==
    /\ ~crashed
    /\ pc[p] = "idle"
    /\ Held(p)
    /\ IF ~ReleaseProceeds(dev[p].tainted, force)
       THEN /\ ret' = [ret EXCEPT ![p] = "rel_skipped"]
            /\ UNCHANGED <<pc, args>>
       ELSE IF getInstanceID(dev[p].inst).err
       THEN /\ ret' = [ret EXCEPT ![p] = "rel_nil"]
            /\ UNCHANGED <<pc, args>>
       ELSE /\ pc' = [pc EXCEPT ![p] = "rel_lock"]
            /\ args' = [args EXCEPT ![p] = [NoArgs EXCEPT !.force = force]]
            /\ ret' = ret
    /\ UNCHANGED <<inFlight, mux, dev, crashed>>

\* A release that does not compare the volume ids.
releaseUnchecked(tbl, device) ==
    LET nodeID == getInstanceID(device.inst).id
        existingVolumeID == GetVolume(tbl, nodeID, device.path)
    IN  IF existingVolumeID = NoVol
        THEN [table |-> tbl, outcome |-> "rel_noentry"]
        ELSE [table |-> Del(tbl, nodeID, device.path), outcome |-> "rel_done"]

\* A release that deletes the entry of the path when it reports a mismatch.
releaseDeletesOnMismatch(tbl, device) ==
    LET nodeID == getInstanceID(device.inst).id
        existingVolumeID == GetVolume(tbl, nodeID, device.path)
    IN  IF existingVolumeID = NoVol
        THEN [table |-> tbl, outcome |-> "rel_noentry"]
        ELSE IF device.vol # existingVolumeID
        THEN [table |-> Del(tbl, nodeID, device.path), outcome |-> "rel_mismatch"]
        ELSE [table |-> Del(tbl, nodeID, device.path), outcome |-> "rel_done"]

\* deviceManager.release under the lock: its outcome and the new table.
release(tbl, device) ==
    LET nodeID == getInstanceID(device.inst).id
        existingVolumeID == GetVolume(tbl, nodeID, device.path)
    IN  IF existingVolumeID = NoVol
        THEN [table |-> tbl, outcome |-> "rel_noentry"]
        ELSE IF device.vol # existingVolumeID
        THEN [table |-> tbl, outcome |-> "rel_mismatch"]
        ELSE [table |-> Del(tbl, nodeID, device.path), outcome |-> "rel_done"]

\* d.mux.Lock(), the body of release and the deferred Unlock.
ReleaseRun(p) ==
    /\ ~crashed
    /\ pc[p] = "rel_lock"
    /\ Lockable(mux)
    /\ inFlight' = release(inFlight, dev[p]).table
    /\ ret' = [ret EXCEPT ![p] = release(inFlight, dev[p]).outcome]
    /\ mux' = Unlock(p)
    /\ pc' = [pc EXCEPT ![p] = "idle"]
    /\ args' = [args EXCEPT ![p] = NoArgs]
    /\ UNCHANGED <<dev, crashed>>

\* ------------------------------------------------------------------ Next
Next ==
    \E p \in Procs :
        \/ \E inst \in InstIDs \cup {NilInst}, v \in Vols : NewDeviceCall(p, inst, v)
        \/ \E snap \in Snapshots : NewDeviceLock(p, snap)
        \/ NewDeviceDecide(p)
        \/ \E inst \in InstIDs \cup {NilInst}, v \in Vols : GetDeviceCall(p, inst, v)
        \/ \E snap \in Snapshots : GetDeviceRun(p, snap)
        \/ \E recovered \in BOOLEAN : GetDevicePanic(p, recovered)
        \/ Taint(p)
        \/ \E force \in BOOLEAN : Release(p, force)
        \/ ReleaseRun(p)

Spec == Init /\ [][Next]_vars

\* Fair scheduling of the callers: a caller that is at d.mux.Lock() gets
\* the lock if it is free again and again (sync.Mutex hands the lock to a
\* starving waiter), and a caller that holds it runs on to its return.
Fairness(p) ==
    /\ SF_vars(\E snap \in Snapshots : NewDeviceLock(p, snap))
    /\ WF_vars(NewDeviceDecide(p))
    /\ SF_vars(\E snap \in Snapshots : GetDeviceRun(p, snap))
    /\ SF_vars(\E recovered \in BOOLEAN : GetDevicePanic(p, recovered))
    /\ SF_vars(ReleaseRun(p))

FairSpec == Spec /\ \A p \in Procs : Fairness(p)

\* ------------------------------------------------- concurrent NewDevice
\* Tables the manager can hold: per instance no volume under two names.
Tables ==
    {t \in [InstIDs -> [DevNames -> Vols \cup {NoVol}]] :
        \A i \in InstIDs : \A n, m \in DevNames :
            (t[i][n] # NoVol /\ t[i][n] = t[i][m]) => n = m}

FreeNames(tbl, i, snap) ==
    {n \in Names : tbl[i][n] = NoVol /\ snap[n] = NoVol}

\* Some callers have called NewDevice at the same time with the same
\* instance (id and reported mapping) and the volumes vols[p].
Pending(tbl, group, i, snap, vols) ==
    /\ inFlight = tbl
    /\ mux = NoOwner
    /\ pc = [p \in Procs |-> IF p \in group THEN "nd_lock" ELSE "idle"]
    /\ args = [p \in Procs |->
                  IF p \in group
                  THEN [NoArgs EXCEPT !.inst = i, !.vol = vols[p], !.snap = snap]
                  ELSE NoArgs]
    /\ dev = [p \in Procs |-> NoDevice]
    /\ ret = [p \in Procs |-> "none"]
    /\ crashed = FALSE

\* N callers, N distinct volumes, N no larger than the number of free names.
ConcInit ==
    \E tbl \in Tables, group \in SUBSET Procs, i \in InstIDs, snap \in Snapshots :
        \E vols \in [Procs -> Vols] :
            /\ group # {}
            /\ \A p, q \in group : vols[p] = vols[q] => p = q
            /\ \A p \in Procs \ group : vols[p] = 1
            /\ Cardinality(group) <= Cardinality(FreeNames(tbl, i, snap))
            /\ Pending(tbl, group, i, snap, vols)

\* The calls run to their return; nothing is released.
PendingNext ==
    \E p \in Procs :
        \/ NewDeviceLock(p, args[p].snap)
        \/ NewDeviceDecide(p)

ConcSpec == ConcInit /\ [][PendingNext]_vars

\* Every caller has called NewDevice for the same instance and volume.
RepeatInit ==
    \E tbl \in Tables, i \in InstIDs, snap \in Snapshots, v \in Vols :
        Pending(tbl, Procs, i, snap, [p \in Procs |-> v])

RepeatSpec == RepeatInit /\ [][PendingNext]_vars

\* ================================================================ claims
\* Steps of one caller, read off pc.
NewDeviceReturns(p) == pc[p] = "nd_decide" /\ pc'[p] = "idle"

NewDeviceSucceeds(p) == NewDeviceReturns(p) /\ ret'[p] = "new_ok"

ReleaseRuns(p) == pc[p] = "rel_lock" /\ pc'[p] = "idle"

\* The merged in-use set of an instance, stated on the table and the
\* reported mapping: the in-flight volume of a name, else the reported one.
MergedVolume(tbl, i, snap, n) ==
    IF tbl[i][n] # NoVol THEN tbl[i][n] ELSE snap[n]

\* The handle a caller holds was returned by NewDevice for a name it reserved.
Reserved(p) == Held(p) /\ ~dev[p].assigned /\ dev[p].path # NoPath

\* The handle a caller holds came from NewDevice and the caller has not
\* called Release on it.
Outstanding(p) == pc[p] = "idle" /\ ret[p] = "new_ok" /\ Reserved(p)

\* C1 (as stated): two handles NewDevice returned for new reservations on
\* the same instance, neither released by its owner yet, never hold the same
\* device path for different volumes.
C1_OutstandingNeverCollide ==
    \A p, q \in Procs :
        (/\ Outstanding(p) /\ Outstanding(q)
         /\ dev[p].inst = dev[q].inst
         /\ dev[p].vol # dev[q].vol)
        => dev[p].path # dev[q].path

\* C1 (amended): while the in-flight table holds the entry P -> A of an
\* instance, no NewDevice for that instance and another volume returns P.
C1_ReservedNameNotReturned ==
    [][\A p \in Procs :
          NewDeviceSucceeds(p) =>
              GetVolume(inFlight, args[p].inst, dev'[p].path) \in {NoVol, args[p].vol}]_vars

\* C1 witness: a NewDevice returned a new name while another caller's
\* reservation for another volume was in the table of the same instance.
C1_Witness ==
    \E p, q \in Procs :
        /\ Outstanding(p) /\ Outstanding(q)
        /\ dev[p].inst = dev[q].inst
        /\ dev[p].vol # dev[q].vol
        /\ dev[p].path # dev[q].path
        /\ GetVolume(inFlight, dev[q].inst, dev[q].path) = dev[q].vol
        /\ GetVolume(inFlight, dev[p].inst, dev[p].path) = dev[p].vol

\* C2: the path a successful NewDevice returns is never a name the merged
\* in-use set of the instance maps to a different volume.
C2_PathNotInUseByOther ==
    [][\A p \in Procs :
          NewDeviceSucceeds(p) =>
              MergedVolume(inFlight, args[p].inst, args[p].snap, dev'[p].path)
                  \in {NoVol, args[p].vol}]_vars

\* C2 witness: NewDevice has returned a path while the merged set of the
\* instance held another volume under another name.
C2_Witness ==
    \E p \in Procs : \E n \in DevNames :
        /\ pc[p] = "idle" /\ ret[p] = "new_ok"
        /\ n # dev[p].path
        /\ GetVolume(inFlight, dev[p].inst, n) \notin {NoVol, dev[p].vol}

\* C3: N concurrent NewDevice calls for N distinct volumes on one instance
\* with at least N free names all succeed, with pairwise distinct paths.
C3_ConcurrentDistinct ==
    /\ \A p \in Procs : ret[p] \notin {"new_exhausted", "new_nil"}
    /\ \A p, q \in Procs :
           (p # q /\ Held(p) /\ Held(q)) => dev[p].path # dev[q].path

\* C3 witness: two concurrent callers have both returned.
C3_Witness ==
    \E p, q \in Procs :
        /\ p # q
        /\ ret[p] = "new_ok" /\ ret[q] = "new_ok"
        /\ dev[p].path # dev[q].path

\* C4: of two NewDevice calls for the same instance and volume, the one
\* that returns second returns the path of the first, IsAlreadyAssigned =
\* true, and leaves the table as it was.
C4_SecondCallSamePath ==
    [][\A p, q \in Procs :
          (p # q /\ NewDeviceReturns(p) /\ ret[q] = "new_ok") =>
              /\ ret'[p] = "new_ok"
              /\ dev'[p].path = dev[q].path
              /\ dev'[p].assigned
              /\ inFlight' = inFlight]_vars

\* C5: a release of a handle whose reserved name is now in the table for
\* another volume reports a mismatch and leaves that entry in place.
C5_StaleReleaseMismatch ==
    [][\A p \in Procs :
          (/\ ReleaseRuns(p)
           /\ Reserved(p)
           /\ GetVolume(inFlight, dev[p].inst, dev[p].path) \notin {NoVol, dev[p].vol})
          => /\ ret'[p] = "rel_mismatch"
             /\ GetVolume(inFlight', dev[p].inst, dev[p].path)
                    = GetVolume(inFlight, dev[p].inst, dev[p].path)]_vars

\* C5 witness: a stale handle was released against another volume's entry.
C5_Witness ==
    \E p \in Procs :
        /\ ret[p] = "rel_mismatch"
        /\ Reserved(p)
        /\ GetVolume(inFlight, dev[p].inst, dev[p].path) \notin {NoVol, dev[p].vol}

\* C6: once Release(false) has run on the handle of a reservation NewDevice
\* made, a GetDevice for the same instance and volume, whose reported
\* mapping does not contain the volume, finds no path.
C6_ReleaseThenGetDeviceEmpty ==
    [][\A p \in Procs :
          (/\ ReleaseRuns(p)
           /\ ~args[p].force
           /\ Reserved(p)
           /\ GetVolume(inFlight, dev[p].inst, dev[p].path) = dev[p].vol)
          => \A snap \in Snapshots :
                 (\A n \in DevNames : snap[n] # dev[p].vol) =>
                     \A path \in getPath(getDeviceNamesInUse(inFlight', dev[p].inst, snap), dev[p].vol) :
                         /\ GetDeviceHandle(dev[p].inst, dev[p].vol, path).path = NoPath
                         /\ ~GetDeviceHandle(dev[p].inst, dev[p].vol, path).assigned]_vars

\* C6 witness: a reservation was released without force and is gone.
C6_Witness ==
    \E p \in Procs :
        /\ ret[p] = "rel_done"
        /\ Reserved(p)
        /\ ~dev[p].tainted
        /\ \A n \in DevNames : GetVolume(inFlight, dev[p].inst, n) # dev[p].vol

\* C7: when the merged in-use set covers every candidate name and does not
\* contain the volume, NewDevice returns the exhaustion error, no handle,
\* and the table is unchanged.
C7_ExhaustionNoReservation ==
    [][\A p \in Procs :
          (/\ NewDeviceReturns(p)
           /\ \A n \in Names :
                  MergedVolume(inFlight, args[p].inst, args[p].snap, n) \notin {NoVol, args[p].vol}
           /\ \A n \in DevNames :
                  MergedVolume(inFlight, args[p].inst, args[p].snap, n) # args[p].vol)
          => /\ ret'[p] = "new_exhausted"
             /\ dev'[p] = NoDevice
             /\ inFlight' = inFlight]_vars

\* C7 witness: a NewDevice failed for want of a free name.
C7_Witness ==
    \E p \in Procs :
        /\ ret[p] = "new_exhausted"
        /\ pc[p] = "idle"
        /\ dev[p] = NoDevice

\* C8: on a tainted handle Release(false) leaves the table unchanged, and
\* Release(true) removes the handle's entry.
C8_TaintedRelease ==
    [][\A p \in Procs :
          /\ (/\ Held(p) /\ dev[p].tainted
              /\ \/ (ret[p] # "rel_skipped" /\ ret'[p] = "rel_skipped")
                 \/ (ReleaseRuns(p) /\ ~args[p].force))
             => inFlight' = inFlight
          /\ (/\ ReleaseRuns(p) /\ dev[p].tainted /\ args[p].force
              /\ GetVolume(inFlight, dev[p].inst, dev[p].path) = dev[p].vol)
             => GetVolume(inFlight', dev[p].inst, dev[p].path) = NoVol]_vars

\* C8 witness: one tainted handle skipped its release and its entry is
\* still there, another was released with force and its entry is gone.
C8_Witness ==
    \E p, q \in Procs :
        /\ dev[p].tainted /\ ret[p] = "rel_skipped" /\ Reserved(p)
        /\ GetVolume(inFlight, dev[p].inst, dev[p].path) = dev[p].vol
        /\ dev[q].tainted /\ ret[q] = "rel_done" /\ Reserved(q)
        /\ GetVolume(inFlight, dev[q].inst, dev[q].path) = NoVol

\* C9: no step of a GetDevice call, the call or its body, with or without
\* a match, changes the in-flight table.
C9_GetDeviceReadOnly ==
    [][\A p \in Procs :
          (\/ (pc[p] = "idle" /\ pc'[p] = "gd_lock")
           \/ (pc[p] = "gd_lock" /\ pc'[p] = "idle"))
          => inFlight' = inFlight]_vars

\* C9 witness: one GetDevice found a path and another found none, with
\* reservations in the table.
C9_Witness ==
    \E p, q \in Procs :
        /\ ret[p] = "get_ok" /\ dev[p].assigned
        /\ ret[q] = "get_ok" /\ ~dev[q].assigned
        /\ inFlight # EmptyTable

\* C10: NewDevice with a nil instance returns an error and no handle,
\* leaves the table unchanged and the lock free.
C10_NilInstanceRejected ==
    [][\A p \in Procs :
          (pc[p] = "nd_lock" /\ args[p].inst = NilInst /\ pc'[p] # "nd_lock")
          => /\ pc'[p] = "idle"
             /\ ret'[p] = "new_nil"
             /\ dev'[p] = NoDevice
             /\ inFlight' = inFlight
             /\ Lockable(mux')]_vars

\* C10 witness: a nil instance was rejected, and a call of another caller
\* that returned has found the lock free.
C10_Witness ==
    \E p, q \in Procs :
        /\ ret[p] = "new_nil" /\ pc[p] = "idle" /\ dev[p] = NoDevice
        /\ ret[q] = "new_ok"
        /\ Lockable(mux)

\* A later Release of a handle whose last Release removed its entry: the
\* outcome of that earlier call is still in ret while this one waits.
ReleasedAgain(p) == ReleaseRuns(p) /\ ret[p] = "rel_done"

\* C11 (as stated): once a Release of a handle has removed its entry,
\* every later Release of that handle leaves the table unchanged, whatever
\* the other callers did in between.
C11_ReleasedStaysReleased ==
    [][\A p \in Procs : ReleasedAgain(p) => inFlight' = inFlight]_vars

\* C11 (amended): a later Release of a released handle leaves the table
\* unchanged unless the handle's path is in the table again for the
\* handle's volume; then it removes that entry, and nothing else.
C11_ReleasedUnlessReservedAgain ==
    [][\A p \in Procs :
          ReleasedAgain(p) =>
              IF GetVolume(inFlight, dev[p].inst, dev[p].path) = dev[p].vol
              THEN /\ ret'[p] = "rel_done"
                   /\ inFlight' =
                          [inFlight EXCEPT ![dev[p].inst][dev[p].path] = NoVol]
              ELSE /\ ret'[p] \in {"rel_noentry", "rel_mismatch"}
                   /\ inFlight' = inFlight]_vars

\* C11 witness: a released handle is being released again after another
\* caller reserved its path for another volume.
C11_Witness ==
    \E p, q \in Procs :
        /\ p # q
        /\ pc[p] = "rel_lock" /\ ret[p] = "rel_done" /\ Reserved(p)
        /\ Outstanding(q)
        /\ dev[q].inst = dev[p].inst /\ dev[q].path = dev[p].path
        /\ dev[q].vol # dev[p].vol
        /\ GetVolume(inFlight, dev[q].inst, dev[q].path) = dev[q].vol

\* The reservation of a NewDevice handle is in the table, the handle is
\* tainted, and no forced Release of it is under way.
TaintedReservation(p) ==
    /\ Reserved(p)
    /\ dev[p].tainted
    /\ ~(pc[p] = "rel_lock" /\ args[p].force)
    /\ GetVolume(inFlight, dev[p].inst, dev[p].path) = dev[p].vol

\* C12 (as stated): the reservation of a tainted handle that is not
\* force-released stays in the table, whatever is called on other handles.
C12_TaintedReservationStays ==
    [][\A p \in Procs :
          TaintedReservation(p) =>
              GetVolume(inFlight', dev[p].inst, dev[p].path) = dev[p].vol]_vars

\* C12 (amended): the reservation of a tainted handle that is not
\* force-released leaves the table only by a Release of another handle
\* that carries the same instance, path and volume.
C12_TaintedReservationRemovedByTwin ==
    [][\A p \in Procs :
          (/\ TaintedReservation(p)
           /\ GetVolume(inFlight', dev[p].inst, dev[p].path) # dev[p].vol)
          => \E q \in Procs \ {p} :
                 /\ ReleaseRuns(q)
                 /\ dev[q].inst = dev[p].inst
                 /\ dev[q].path = dev[p].path
                 /\ dev[q].vol = dev[p].vol]_vars

\* C12 witness: a tainted handle was released without force, another
\* handle for another path was released with effect, and the tainted
\* handle's reservation is still there.
C12_Witness ==
    \E p, q \in Procs :
        /\ p # q
        /\ TaintedReservation(p) /\ ret[p] = "rel_skipped"
        /\ ret[q] = "rel_done" /\ dev[q].inst = dev[p].inst
        /\ dev[q].path # dev[p].path

\* C13: the in-flight table changes only by a NewDevice that allocated a
\* new name (IsAlreadyAssigned = false), which adds that one entry, and by
\* a release that returned without error for a handle whose path and
\* volume equal an entry, which removes that one entry; every other step
\* leaves the table as it was.
C13_TableChangesOnlyByAddAndDel ==
    [][inFlight' # inFlight =>
          \E p \in Procs :
              \/ /\ NewDeviceSucceeds(p)
                 /\ ~dev'[p].assigned
                 /\ inFlight[args[p].inst][dev'[p].path] = NoVol
                 /\ inFlight' =
                        [inFlight EXCEPT
                            ![args[p].inst][dev'[p].path] = args[p].vol]
              \/ /\ ReleaseRuns(p)
                 /\ ret'[p] = "rel_done"
                 /\ inFlight[dev[p].inst][dev[p].path] = dev[p].vol
                 /\ inFlight' =
                        [inFlight EXCEPT ![dev[p].inst][dev[p].path] = NoVol]]_vars

\* C13 witness: one reservation was added and removed again and another,
\* added after it, is in the table.
C13_Witness ==
    \E p, q \in Procs :
        /\ p # q
        /\ Reserved(p) /\ ret[p] = "rel_done"
        /\ GetVolume(inFlight, dev[p].inst, dev[p].path) = NoVol
        /\ Outstanding(q)
        /\ GetVolume(inFlight, dev[q].inst, dev[q].path) = dev[q].vol

\* C14: the merged in-use set NewDevice works on under the lock has
\* exactly the names of the instance's reported mapping and of its
\* in-flight entries; a name in flight carries the in-flight volume, also
\* when it is reported for another one, and any other name its reported
\* volume.
C14_MergedInUseSet ==
    \A p \in Procs :
        pc[p] = "nd_decide" =>
            LET reported == {n \in DevNames : args[p].snap[n] # NoVol}
                flying == {n \in DevNames : inFlight[args[p].inst][n] # NoVol}
                merged == {n \in DevNames : args[p].inUse[n] # NoVol}
            IN  /\ merged = reported \cup flying
                /\ \A n \in flying :
                       args[p].inUse[n] = inFlight[args[p].inst][n]
                /\ \A n \in reported \ flying :
                       args[p].inUse[n] = args[p].snap[n]

\* C14 witness: a merged set with a name that is reported for one volume
\* and in flight for another, and a name that is reported only.
C14_Witness ==
    \E p \in Procs :
        /\ pc[p] = "nd_decide"
        /\ \E n, m \in DevNames :
               /\ n # m
               /\ inFlight[args[p].inst][n] # NoVol
               /\ args[p].snap[n] # NoVol
               /\ args[p].snap[n] # inFlight[args[p].inst][n]
               /\ inFlight[args[p].inst][m] = NoVol
               /\ args[p].snap[m] # NoVol

\* A caller is in no call and its last call, if any, came back to it.
Returned(p) == pc[p] = "idle" /\ ret[p] # "get_panic"

\* C15: under fair scheduling every started NewDevice, GetDevice and
\* Release call eventually returns, and the lock is held only by a caller
\* that is inside NewDevice, so it is free once the calls have returned.
C15_EveryCallReturns ==
    /\ [](mux # NoOwner => pc[mux] = "nd_decide")
    /\ \A p \in Procs : (pc[p] # "idle") ~> Returned(p)

\* C16: the device decision is deterministic: for the table, snapshot and
\* volume a NewDevice call decides on, and so for every merged in-use set,
\* there is one path it can return (and with it one IsAlreadyAssigned).
C16_DecisionDeterministic ==
    \A p \in Procs :
        pc[p] = "nd_decide" =>
            \A a, b \in getPath(getDeviceNamesInUse(inFlight, args[p].inst,
                                                     args[p].snap),
                                 args[p].vol) : a = b

\* C17: GetDevice with a nil instance returns an error to its caller,
\* leaves the table unchanged and the manager usable: the process lives
\* and the lock is free.
C17_GetDeviceNilRejected ==
    [][\A p \in Procs :
          (pc[p] = "gd_lock" /\ args[p].inst = NilInst /\ pc'[p] # "gd_lock")
          => /\ pc'[p] = "idle"
             /\ ret'[p] # "get_panic"
             /\ ~crashed'
             /\ inFlight' = inFlight
             /\ Lockable(mux')]_vars

\* C18 (as stated): a Release of a handle returned with IsAlreadyAssigned =
\* true, by GetDevice or by NewDevice, never removes an entry.
C18_AssignedHandleRemovesNothing ==
    [][\A p \in Procs :
          (ReleaseRuns(p) /\ dev[p].assigned) => inFlight' = inFlight]_vars

\* C18 (amended): a Release of a handle returned with IsAlreadyAssigned =
\* true removes at most the entry that holds the handle's path for the
\* handle's volume; every entry of another name, instance or volume stays.
C18_AssignedHandleRemovesOwnPairOnly ==
    [][\A p \in Procs :
          (ReleaseRuns(p) /\ dev[p].assigned) =>
              \A i \in InstIDs, n \in DevNames :
                  inFlight'[i][n] # inFlight[i][n] =>
                      /\ i = dev[p].inst /\ n = dev[p].path
                      /\ inFlight[i][n] = dev[p].vol
                      /\ inFlight'[i][n] = NoVol]_vars

\* C18 witness: a handle GetDevice returned for a reserved path was
\* released and removed the entry, the handle that reserved the path is
\* outstanding, and another reservation is in the table.
C18_Witness ==
    \E p, q \in Procs :
        /\ p # q
        /\ dev[p].assigned /\ ret[p] = "rel_done"
        /\ Outstanding(q)
        /\ dev[q].inst = dev[p].inst /\ dev[q].path = dev[p].path
        /\ dev[q].vol = dev[p].vol
        /\ GetVolume(inFlight, dev[p].inst, dev[p].path) = NoVol
        /\ inFlight # EmptyTable

\* C19: in every reachable state the in-flight table of each instance is
\* injective on volumes: no volume is reserved under two device names.
C19_InFlightInjective ==
    \A i \in InstIDs : \A n, m \in DevNames :
        (inFlight[i][n] # NoVol /\ inFlight[i][n] = inFlight[i][m]) => n = m

\* C19 witness: an instance has two reservations and a NewDevice call for
\* one of the two volumes has found its name.
C19_Witness ==
    \E i \in InstIDs : \E n, m \in DevNames : \E p \in Procs :
        /\ n # m
        /\ inFlight[i][n] # NoVol /\ inFlight[i][m] # NoVol
        /\ ret[p] = "new_ok" /\ dev[p].assigned
        /\ dev[p].inst = i /\ dev[p].path = n /\ dev[p].vol = inFlight[i][n]

\* The reported mapping has the volume under a name.
ReportedAttached(snap, volumeID) == \E n \in DevNames : snap[n] = volumeID

\* The reported mapping has the volume under a name that the in-flight
\* table of the instance does not hold for another volume.
ReportedUnmasked(tbl, i, snap, volumeID) ==
    \E n \in DevNames :
        snap[n] = volumeID /\ tbl[i][n] \in {NoVol, volumeID}

\* C20 (as stated): a NewDevice for a volume the instance's reported
\* mapping has under a name returns IsAlreadyAssigned = true and adds no
\* entry, whatever the in-flight table holds.
C20_ReportedAlwaysRecognised ==
    [][\A p \in Procs :
          (NewDeviceReturns(p) /\ ReportedAttached(args[p].snap, args[p].vol))
          => /\ ret'[p] = "new_ok"
             /\ dev'[p].assigned
             /\ inFlight' = inFlight]_vars

\* C20 (amended): when the reported mapping has the volume under a name
\* that is not in flight for another volume, NewDevice returns
\* IsAlreadyAssigned = true and adds no entry, and so does GetDevice on
\* every table the manager reaches.
C20_ReportedUnmaskedRecognised ==
    /\ [][\A p \in Procs :
            (/\ NewDeviceReturns(p)
             /\ ReportedUnmasked(inFlight, args[p].inst, args[p].snap,
                                 args[p].vol))
            => /\ ret'[p] = "new_ok"
               /\ dev'[p].assigned
               /\ inFlight' = inFlight]_vars
    /\ [](\A i \in InstIDs, v \in Vols, snap \in Snapshots :
            ReportedUnmasked(inFlight, i, snap, v) =>
                \A path \in getPath(getDeviceNamesInUse(inFlight, i, snap), v) :
                    /\ GetDeviceHandle(i, v, path).assigned
                    /\ GetDeviceTable(inFlight, i, v, path) = inFlight)

\* C20 witness: NewDevice has recognised a volume by a name that is not in
\* flight, so by the reported mapping, while another volume is in flight
\* on the instance.
C20_Witness ==
    \E p \in Procs : \E m \in DevNames :
        /\ ret[p] = "new_ok" /\ dev[p].assigned
        /\ inFlight[dev[p].inst][dev[p].path] = NoVol
        /\ inFlight[dev[p].inst][m] \notin {NoVol, dev[p].vol}

====
